---- MODULE Spec2Model ----
(***************************************************************************)
(* The ChaCha20 DRNG backend of the LRNG (lrng_chacha20.c): the 16-word    *)
(* chacha20_block state, its update / seed / generate / generate_full      *)
(* helpers and the allocation life cycle of one DRNG handle.               *)
(*                                                                         *)
(* A u32 is the pair <<lo, hi>> of its 16-bit halves, so that every        *)
(* addition, XOR and rotation is exact modulo 2^32.  Buffers are byte      *)
(* sequences; a u32 array viewed as bytes is little-endian (the host byte  *)
(* order of the build modelled here, which is also the order in which the  *)
(* block function stores its output words).                                *)
(***************************************************************************)
EXTENDS Integers, Sequences, FiniteSets, TLC

(***************************************************************************)
(* Bounds of the model                                                     *)
(***************************************************************************)
\* helper calls (seed, generate, generate_full) made on one handle
MaxCalls == 2

(***************************************************************************)
(* Program constants                                                       *)
(***************************************************************************)
CHACHA_KEY_SIZE == 32
CHACHA_BLOCK_SIZE == 64
CHACHA_KEY_SIZE_WORDS == CHACHA_KEY_SIZE \div 4
CHACHA_BLOCK_WORDS == CHACHA_BLOCK_SIZE \div 4

(***************************************************************************)
(* u32 arithmetic                                                          *)
(***************************************************************************)
Half == 256 * 256

\* an array built index by index, as the finite sequence of its elements
Array(f) == f \o <<>>

\* Body(v), with v computed once, before Body is entered
Let(v, Body(_)) == CHOOSE r \in { Body(y) : y \in {v} } : TRUE

\* the C operator ^ on two 4-bit values
XorNib ==
  << << 0,  1,  2,  3,  4,  5,  6,  7,  8,  9, 10, 11, 12, 13, 14, 15>>,
     << 1,  0,  3,  2,  5,  4,  7,  6,  9,  8, 11, 10, 13, 12, 15, 14>>,
     << 2,  3,  0,  1,  6,  7,  4,  5, 10, 11,  8,  9, 14, 15, 12, 13>>,
     << 3,  2,  1,  0,  7,  6,  5,  4, 11, 10,  9,  8, 15, 14, 13, 12>>,
     << 4,  5,  6,  7,  0,  1,  2,  3, 12, 13, 14, 15,  8,  9, 10, 11>>,
     << 5,  4,  7,  6,  1,  0,  3,  2, 13, 12, 15, 14,  9,  8, 11, 10>>,
     << 6,  7,  4,  5,  2,  3,  0,  1, 14, 15, 12, 13, 10, 11,  8,  9>>,
     << 7,  6,  5,  4,  3,  2,  1,  0, 15, 14, 13, 12, 11, 10,  9,  8>>,
     << 8,  9, 10, 11, 12, 13, 14, 15,  0,  1,  2,  3,  4,  5,  6,  7>>,
     << 9,  8, 11, 10, 13, 12, 15, 14,  1,  0,  3,  2,  5,  4,  7,  6>>,
     <<10, 11,  8,  9, 14, 15, 12, 13,  2,  3,  0,  1,  6,  7,  4,  5>>,
     <<11, 10,  9,  8, 15, 14, 13, 12,  3,  2,  1,  0,  7,  6,  5,  4>>,
     <<12, 13, 14, 15,  8,  9, 10, 11,  4,  5,  6,  7,  0,  1,  2,  3>>,
     <<13, 12, 15, 14,  9,  8, 11, 10,  5,  4,  7,  6,  1,  0,  3,  2>>,
     <<14, 15, 12, 13, 10, 11,  8,  9,  6,  7,  4,  5,  2,  3,  0,  1>>,
     <<15, 14, 13, 12, 11, 10,  9,  8,  7,  6,  5,  4,  3,  2,  1,  0>> >>

\* the C operator ^ on two u8 values
XorByte(a, b) ==
    XorNib[(a % 16) + 1][(b % 16) + 1]
    + 16 * XorNib[(a \div 16) + 1][(b \div 16) + 1]

Xor16(a, b) == XorByte(a % 256, b % 256) + 256 * XorByte(a \div 256, b \div 256)

\* the C operator ^ on two u32 values
Xor32(v, w) == <<Xor16(v[1], w[1]), Xor16(v[2], w[2])>>

\* the C operator + on two u32 values (wraps modulo 2^32)
Add32(v, w) ==
    LET lo == v[1] + w[1]
    IN  <<lo % Half, (v[2] + w[2] + (lo \div Half)) % Half>>

U32(hi, lo) == <<lo, hi>>
Zero32 == U32(0, 0)
One32 == U32(0, 1)
Ones32 == U32(Half - 1, Half - 1)

\* the C operator ++ on a u32
Inc32(v) == Add32(v, One32)

\* rol32(v, n) for the rotations of the block function: n is 16, 12, 8 or 7
Rotl32(v, n) ==
    IF n = 16 THEN <<v[2], v[1]>>
    ELSE <<((v[1] % (2 ^ (16 - n))) * (2 ^ n)) + (v[2] \div (2 ^ (16 - n))),
           ((v[2] % (2 ^ (16 - n))) * (2 ^ n)) + (v[1] \div (2 ^ (16 - n)))>>

\* a u32 stored to memory (little-endian), and loaded back
WordBytes(w) == <<w[1] % 256, w[1] \div 256, w[2] % 256, w[2] \div 256>>
BytesWord(b) == <<b[1] + 256 * b[2], b[3] + 256 * b[4]>>

RECURSIVE WordsToBytes(_)
WordsToBytes(ws) ==
    IF ws = <<>> THEN <<>> ELSE WordBytes(Head(ws)) \o WordsToBytes(Tail(ws))

\* a byte buffer read as a u32 array
BytesToWords(bs) ==
    Array([i \in 1..(Len(bs) \div 4) |-> BytesWord(SubSeq(bs, 4 * i - 3, 4 * i))])

(***************************************************************************)
(* The block function chacha20_block (crypto/chacha.h, RFC 7539 2.3): the  *)
(* 20-round permutation of the 16 state words, added to the input words,   *)
(* stored little-endian; it increments word 12 (the counter) of the state  *)
(* it is given.                                                            *)
(***************************************************************************)
\* x[p] = sum; x[r] = rol32(x[r] ^ x[p], n)
MixStore(x, p, r, n, sum) ==
    [x EXCEPT ![p] = sum, ![r] = Rotl32(Xor32(x[r], sum), n)]

\* x[p] += x[q]; x[r] = rol32(x[r] ^ x[p], n)
Mix(x, p, q, r, n) == MixStore(x, p, r, n, Add32(x[p], x[q]))

QuarterRound(x, a, b, c, d) ==
    Mix(Mix(Mix(Mix(x, a, b, d, 16), c, d, b, 12), a, b, d, 8), c, d, b, 7)

DoubleRound(x) ==
    Let(QuarterRound(x, 1, 5, 9, 13), LAMBDA x1 :
    Let(QuarterRound(x1, 2, 6, 10, 14), LAMBDA x2 :
    Let(QuarterRound(x2, 3, 7, 11, 15), LAMBDA x3 :
    Let(QuarterRound(x3, 4, 8, 12, 16), LAMBDA x4 :
    Let(QuarterRound(x4, 1, 6, 11, 16), LAMBDA x5 :
    Let(QuarterRound(x5, 2, 7, 12, 13), LAMBDA x6 :
    Let(QuarterRound(x6, 3, 8, 9, 14), LAMBDA x7 :
        QuarterRound(x7, 4, 5, 10, 15))))))))

RECURSIVE chacha_permute(_, _)
chacha_permute(x, doublerounds) ==
    IF doublerounds = 0 THEN x
    ELSE Let(DoubleRound(x), LAMBDA y : chacha_permute(y, doublerounds - 1))

\* chacha20_block is chacha_block with 20 rounds
ChaChaRounds == 20

\* the 16 output words of one block computed from the 16 state words s
BlockWords(s) ==
    Let(chacha_permute(s, ChaChaRounds \div 2),
        LAMBDA x : Array([i \in 1..CHACHA_BLOCK_WORDS |-> Add32(x[i], s[i])]))

(***************************************************************************)
(* struct chacha20_block: 16 words, constants[4] key[8] counter nonce[3]   *)
(***************************************************************************)
CounterIdx == 13
ConstIdx == 1..4
KeyIdx == 5..12
NonceIdx == 14..16

Constants(s) == SubSeq(s, 1, 4)
Key(s) == SubSeq(s, 5, 12)
Counter(s) == s[CounterIdx]
Nonce(s) == SubSeq(s, 14, 16)

ZeroState == Array([i \in 1..CHACHA_BLOCK_WORDS |-> Zero32])

\* chacha20_block(&chacha20->constants[0], stream): the stream bytes, and the
\* state with its counter word incremented
chacha20_block(s) ==
    [stream |-> WordsToBytes(BlockWords(s)),
     state  |-> [s EXCEPT ![CounterIdx] = Inc32(s[CounterIdx])]]

\* mutant of XorOntoKey: the XOR indexes the struct from its first word, so
\* that it lands on constants[0..3] and key[0..3]
XorOntoKey_FromBase(s, w) ==
    Array([i \in 1..CHACHA_BLOCK_WORDS |->
              IF i <= CHACHA_KEY_SIZE_WORDS THEN Xor32(s[i], w[i]) ELSE s[i]])

\* chacha20->key.u[i] ^= w[i] for i < CHACHA_KEY_SIZE_WORDS
XorOntoKey(s, w) ==
    Array([i \in 1..CHACHA_BLOCK_WORDS |->
              IF i \in KeyIdx THEN Xor32(s[i], w[i - 4]) ELSE s[i]])

\* the nonce increment at the end of lrng_chacha20_update
NonceIncrement(s) ==
    LET n0 == Inc32(s[14])
        n1 == IF n0 = Zero32 THEN Inc32(s[15]) ELSE s[15]
        n2 == IF n1 = Zero32 THEN Inc32(s[16]) ELSE s[16]
    IN  [s EXCEPT ![14] = n0, ![15] = n1, ![16] = n2]

\* mutant of lrng_chacha20_update: the counter is set back to zero
lrng_chacha20_update_CounterReset(s, buf, used_words) ==
    IF used_words > CHACHA_KEY_SIZE_WORDS
    THEN Let(chacha20_block(s), LAMBDA r :
             [state |-> [NonceIncrement(XorOntoKey(r.state,
                            SubSeq(BytesToWords(r.stream), 1, CHACHA_KEY_SIZE_WORDS)))
                         EXCEPT ![CounterIdx] = Zero32],
              ev    |-> <<"update", "block">>])
    ELSE [state |-> [NonceIncrement(XorOntoKey(s,
                        SubSeq(buf, used_words + 1, used_words + CHACHA_KEY_SIZE_WORDS)))
                     EXCEPT ![CounterIdx] = Zero32],
          ev    |-> <<"update">>]

\* mutant of lrng_chacha20_update: a fresh block also when used_words equals
\* the key size in words
lrng_chacha20_update_FreshAtKeyWords(s, buf, used_words) ==
    IF used_words >= CHACHA_KEY_SIZE_WORDS
    THEN Let(chacha20_block(s), LAMBDA r :
             [state |-> NonceIncrement(XorOntoKey(r.state,
                            SubSeq(BytesToWords(r.stream), 1, CHACHA_KEY_SIZE_WORDS))),
              ev    |-> <<"update", "block">>])
    ELSE [state |-> NonceIncrement(XorOntoKey(s,
                        SubSeq(buf, used_words + 1, used_words + CHACHA_KEY_SIZE_WORDS))),
          ev    |-> <<"update">>]

\* mutant of lrng_chacha20_update: the XOR onto the key is left out
lrng_chacha20_update_NoXor(s, buf, used_words) ==
    IF used_words > CHACHA_KEY_SIZE_WORDS
    THEN Let(chacha20_block(s), LAMBDA r :
             [state |-> NonceIncrement(r.state), ev |-> <<"update", "block">>])
    ELSE [state |-> NonceIncrement(s), ev |-> <<"update">>]

\* lrng_chacha20_update(chacha20_state, buf, used_words); buf is the u32 array
\* the caller passes (16 words, whatever they hold).  Besides the new state
\* the result lists the steps taken: "update", then "block" when a fresh
\* block was generated.
lrng_chacha20_update(s, buf, used_words) ==
    IF used_words > CHACHA_KEY_SIZE_WORDS
    THEN Let(chacha20_block(s), LAMBDA r :
             [state |-> NonceIncrement(XorOntoKey(r.state,
                            SubSeq(BytesToWords(r.stream), 1, CHACHA_KEY_SIZE_WORDS))),
              ev    |-> <<"update", "block">>])
    ELSE [state |-> NonceIncrement(XorOntoKey(s,
                        SubSeq(buf, used_words + 1, used_words + CHACHA_KEY_SIZE_WORDS))),
          ev    |-> <<"update">>]

(***************************************************************************)
(* The caller's output buffer: outbuflen bytes followed by one block of    *)
(* guard bytes, all Unwritten until a helper stores to them.               *)
(***************************************************************************)
Unwritten == 0 - 1

NewBuf(n) == Array([i \in 1..(n + CHACHA_BLOCK_SIZE) |-> Unwritten])

\* memcpy(outbuf + pos, bytes, Len(bytes))
WriteAt(buf, pos, bytes) ==
    Array([i \in 1..Len(buf) |->
              IF i > pos /\ i <= pos + Len(bytes) THEN bytes[i - pos] ELSE buf[i]])

Min(a, b) == IF a < b THEN a ELSE b

(***************************************************************************)
(* lrng_cc20_drng_seed_helper                                              *)
(***************************************************************************)
\* for (i = 0; i < todo; i++) chacha20->key.b[i] ^= inbuf[i];
XorOntoKeyBytes(kb, chunk) ==
    Array([i \in 1..CHACHA_KEY_SIZE |->
              IF i <= Len(chunk) THEN XorByte(kb[i], chunk[i]) ELSE kb[i]])

\* the state with key.b replaced by the bytes kb
WithKeyBytes(s, kb) ==
    Let(BytesToWords(kb), LAMBDA nw :
        Array([i \in 1..CHACHA_BLOCK_WORDS |-> IF i \in KeyIdx THEN nw[i - 4] ELSE s[i]]))

XorBytesOntoKey(s, chunk) ==
    WithKeyBytes(s, XorOntoKeyBytes(WordsToBytes(Key(s)), chunk))

\* mutant of SeedLoop: one update after the whole input instead of one per chunk
RECURSIVE SeedLoop_UpdateAtEnd(_, _, _)
SeedLoop_UpdateAtEnd(s, inbuf, ev) ==
    IF Len(inbuf) = 0 THEN [state |-> s, ev |-> ev]
    ELSE Let(Min(Len(inbuf), CHACHA_KEY_SIZE), LAMBDA todo :
         Let(XorBytesOntoKey(s, SubSeq(inbuf, 1, todo)), LAMBDA x :
         Let(IF Len(inbuf) = todo
             THEN lrng_chacha20_update(x, <<>>, CHACHA_BLOCK_WORDS)
             ELSE [state |-> x, ev |-> <<>>], LAMBDA u :
             SeedLoop_UpdateAtEnd(u.state, SubSeq(inbuf, todo + 1, Len(inbuf)),
                                  ev \o <<"absorb">> \o u.ev))))

\* mutant of SeedLoop: no update after a chunk shorter than the key
RECURSIVE SeedLoop_NoUpdateAfterPartial(_, _, _)
SeedLoop_NoUpdateAfterPartial(s, inbuf, ev) ==
    IF Len(inbuf) = 0 THEN [state |-> s, ev |-> ev]
    ELSE Let(Min(Len(inbuf), CHACHA_KEY_SIZE), LAMBDA todo :
         Let(IF todo = CHACHA_KEY_SIZE
             THEN lrng_chacha20_update(XorBytesOntoKey(s, SubSeq(inbuf, 1, todo)),
                                       <<>>, CHACHA_BLOCK_WORDS)
             ELSE [state |-> XorBytesOntoKey(s, SubSeq(inbuf, 1, todo)), ev |-> <<>>],
             LAMBDA u :
             SeedLoop_NoUpdateAfterPartial(u.state, SubSeq(inbuf, todo + 1, Len(inbuf)),
                                           ev \o <<"absorb">> \o u.ev)))

\* while (inbuflen): absorb at most CHACHA_KEY_SIZE bytes, then update
RECURSIVE SeedLoop(_, _, _)
SeedLoop(s, inbuf, ev) ==
    IF Len(inbuf) = 0 THEN [state |-> s, ev |-> ev]
    ELSE Let(Min(Len(inbuf), CHACHA_KEY_SIZE), LAMBDA todo :
         Let(lrng_chacha20_update(XorBytesOntoKey(s, SubSeq(inbuf, 1, todo)),
                                  <<>>, CHACHA_BLOCK_WORDS), LAMBDA u :
             SeedLoop(u.state, SubSeq(inbuf, todo + 1, Len(inbuf)),
                      ev \o <<"absorb">> \o u.ev)))

\* mutant of lrng_cc20_drng_seed_helper: a do-while loop, whose body runs once
\* on an empty input
seed_helper_DoWhile(s, inbuf) ==
    IF Len(inbuf) = 0
    THEN Let(lrng_chacha20_update(s, <<>>, CHACHA_BLOCK_WORDS), LAMBDA u :
             [state |-> u.state, ret |-> 0, ev |-> <<"absorb">> \o u.ev])
    ELSE Let(SeedLoop(s, inbuf, <<>>), LAMBDA l :
             [state |-> l.state, ret |-> 0, ev |-> l.ev])

lrng_cc20_drng_seed_helper(s, inbuf) ==
    Let(SeedLoop(s, inbuf, <<>>), LAMBDA l : [state |-> l.state, ret |-> 0, ev |-> l.ev])

(***************************************************************************)
(* lrng_cc20_drng_generate_helper                                          *)
(***************************************************************************)
\* mutant of GenerateBlocks: outbuf is not advanced past the block written
RECURSIVE GenerateBlocks_SamePos(_, _, _, _, _)
GenerateBlocks_SamePos(s, buf, pos, outbuflen, ev) ==
    IF outbuflen >= CHACHA_BLOCK_SIZE
    THEN Let(chacha20_block(s), LAMBDA r :
             GenerateBlocks_SamePos(r.state, WriteAt(buf, pos, r.stream),
                                    pos, outbuflen - CHACHA_BLOCK_SIZE,
                                    ev \o <<"block", "out">>))
    ELSE [state |-> s, buf |-> buf, pos |-> pos, outbuflen |-> outbuflen, ev |-> ev]

\* while (outbuflen >= CHACHA_BLOCK_SIZE): one block straight into outbuf
RECURSIVE GenerateBlocks(_, _, _, _, _)
GenerateBlocks(s, buf, pos, outbuflen, ev) ==
    IF outbuflen >= CHACHA_BLOCK_SIZE
    THEN Let(chacha20_block(s), LAMBDA r :
             GenerateBlocks(r.state, WriteAt(buf, pos, r.stream),
                            pos + CHACHA_BLOCK_SIZE, outbuflen - CHACHA_BLOCK_SIZE,
                            ev \o <<"block", "out">>))
    ELSE [state |-> s, buf |-> buf, pos |-> pos, outbuflen |-> outbuflen, ev |-> ev]

\* mutant of GenerateUsedInit: used starts at the key size in words
GenerateUsedInit_KeyWords == CHACHA_KEY_SIZE_WORDS

\* the initial value of the local used
GenerateUsedInit == CHACHA_BLOCK_WORDS

\* mutant of GenerateUpdate: no update when no partial block was generated
GenerateUpdate_OnlyAfterPartial(p) ==
    IF p.zeroize_buf
    THEN lrng_chacha20_update(p.state, p.aligned_buf, p.used)
    ELSE [state |-> p.state, ev |-> <<>>]

\* lrng_chacha20_update(chacha20_state, aligned_buf, used) after the output
GenerateUpdate(p) == lrng_chacha20_update(p.state, p.aligned_buf, p.used)

\* mutant of GeneratePartial: used counts only the words disclosed in full
GeneratePartial_UsedRoundedDown(l, junk) ==
    IF l.outbuflen # 0
    THEN Let(chacha20_block(l.state), LAMBDA r :
             [state       |-> r.state,
              aligned_buf |-> BytesToWords(r.stream),
              buf         |-> WriteAt(l.buf, l.pos, SubSeq(r.stream, 1, l.outbuflen)),
              used        |-> l.outbuflen \div 4,
              zeroize_buf |-> TRUE,
              ev          |-> l.ev \o <<"block", "out">>])
    ELSE [state       |-> l.state,
          aligned_buf |-> junk,
          buf         |-> l.buf,
          used        |-> GenerateUsedInit,
          zeroize_buf |-> FALSE,
          ev          |-> l.ev]

\* if (outbuflen) { one more block into aligned_buf, of which outbuflen
\* bytes are copied out }; l is where the loop over whole blocks ended
GeneratePartial(l, junk) ==
    IF l.outbuflen # 0
    THEN Let(chacha20_block(l.state), LAMBDA r :
             [state       |-> r.state,
              aligned_buf |-> BytesToWords(r.stream),
              buf         |-> WriteAt(l.buf, l.pos, SubSeq(r.stream, 1, l.outbuflen)),
              used        |-> (l.outbuflen + 4 - 1) \div 4,
              zeroize_buf |-> TRUE,
              ev          |-> l.ev \o <<"block", "out">>])
    ELSE [state       |-> l.state,
          aligned_buf |-> junk,
          buf         |-> l.buf,
          used        |-> GenerateUsedInit,
          zeroize_buf |-> FALSE,
          ev          |-> l.ev]

\* junk: what the uninitialised local aligned_buf holds on entry (16 words)
lrng_cc20_drng_generate_helper(s, outbuflen, junk) ==
    Let(GenerateBlocks(s, NewBuf(outbuflen), 0, outbuflen, <<>>), LAMBDA l :
    Let(GeneratePartial(l, junk), LAMBDA p :
    Let(GenerateUpdate(p), LAMBDA u :
        [state |-> u.state,
         buf   |-> p.buf,
         ret   |-> outbuflen,
         ev    |-> p.ev \o u.ev \o (IF p.zeroize_buf THEN <<"wipe">> ELSE <<>>)])))

(***************************************************************************)
(* lrng_cc20_drng_generate_helper_full                                     *)
(***************************************************************************)
\* for (i = 0; i < CHACHA_BLOCK_WORDS / 2; i++)
\*         outbuf[i] ^= outbuf[i + CHACHA_BLOCK_WORDS / 2];      (outbuf is a u8 *)
FoldOutbuf(buf, pos) ==
    Array([i \in 1..Len(buf) |->
              IF i > pos /\ i <= pos + (CHACHA_BLOCK_WORDS \div 2)
              THEN XorByte(buf[i], buf[i + (CHACHA_BLOCK_WORDS \div 2)])
              ELSE buf[i]])

\* for (i = 0; i < CHACHA_BLOCK_WORDS / 2; i++)
\*         aligned_buf[i] ^= aligned_buf[i + CHACHA_BLOCK_WORDS / 2];  (a u32 array)
FoldAligned(aligned_buf) ==
    Array([i \in 1..CHACHA_BLOCK_WORDS |->
              IF i <= CHACHA_BLOCK_WORDS \div 2
              THEN Xor32(aligned_buf[i], aligned_buf[i + (CHACHA_BLOCK_WORDS \div 2)])
              ELSE aligned_buf[i]])

\* mutant of FullBlocks: the loop runs while half a block is still wanted
RECURSIVE FullBlocks_WhileHalfBlock(_, _, _, _, _)
FullBlocks_WhileHalfBlock(s, buf, pos, outbuflen, ev) ==
    IF outbuflen >= CHACHA_BLOCK_SIZE \div 2
    THEN Let(chacha20_block(s), LAMBDA r :
             FullBlocks_WhileHalfBlock(r.state,
                        FoldOutbuf(WriteAt(buf, pos, r.stream), pos),
                        pos + (CHACHA_BLOCK_SIZE \div 2), outbuflen - (CHACHA_BLOCK_SIZE \div 2),
                        ev \o <<"block", "out">>))
    ELSE [state |-> s, buf |-> buf, pos |-> pos, outbuflen |-> outbuflen, ev |-> ev]

\* while (outbuflen >= CHACHA_BLOCK_SIZE)
RECURSIVE FullBlocks(_, _, _, _, _)
FullBlocks(s, buf, pos, outbuflen, ev) ==
    IF outbuflen >= CHACHA_BLOCK_SIZE
    THEN Let(chacha20_block(s), LAMBDA r :
             FullBlocks(r.state, FoldOutbuf(WriteAt(buf, pos, r.stream), pos),
                        pos + (CHACHA_BLOCK_SIZE \div 2), outbuflen - (CHACHA_BLOCK_SIZE \div 2),
                        ev \o <<"block", "out">>))
    ELSE [state |-> s, buf |-> buf, pos |-> pos, outbuflen |-> outbuflen, ev |-> ev]

\* while (outbuflen)
RECURSIVE FullTail(_, _, _, _, _)
FullTail(s, buf, pos, outbuflen, ev) ==
    IF outbuflen # 0
    THEN Let(Min(CHACHA_BLOCK_SIZE \div 2, outbuflen), LAMBDA todo :
         Let(chacha20_block(s), LAMBDA r :
             FullTail(r.state,
                      WriteAt(buf, pos,
                              SubSeq(WordsToBytes(FoldAligned(BytesToWords(r.stream))), 1, todo)),
                      pos + todo, outbuflen - todo, ev \o <<"block", "out">>)))
    ELSE [state |-> s, buf |-> buf, pos |-> pos, outbuflen |-> outbuflen, ev |-> ev]

lrng_cc20_drng_generate_helper_full(s, outbuflen) ==
    Let(FullBlocks(s, NewBuf(outbuflen), 0, outbuflen, <<>>), LAMBDA a :
    Let(FullTail(a.state, a.buf, a.pos, a.outbuflen, a.ev), LAMBDA b :
    Let(lrng_chacha20_update(b.state, <<>>, CHACHA_BLOCK_WORDS), LAMBDA u :
        [state |-> u.state,
         buf   |-> b.buf,
         ret   |-> outbuflen,
         ev    |-> b.ev \o <<"wipe">> \o u.ev])))

(***************************************************************************)
(* lrng_cc20_init_state, lrng_cc20_drng_alloc, lrng_cc20_drng_dealloc      *)
(***************************************************************************)
\* "expand 32-byte k"
TagBytes == <<101, 120, 112, 97, 110, 100, 32, 51, 50, 45, 98, 121, 116, 101, 32, 107>>

\* What one pass of a loop body XORs onto its word.  rd is the set of
\* readings of that pass: jiffies, random_get_entropy(), and what
\* arch_get_random_seed_long and arch_get_random_long would give (whether
\* they succeed, and the value), each truncated to the u32 it is XORed onto.
\* arch_get_random_long is asked only when arch_get_random_seed_long fails.
EntropyWord(rd) ==
    IF rd.seed_ok
    THEN Xor32(Xor32(rd.jiffies, rd.cycles), rd.seed)
    ELSE IF rd.rand_ok
    THEN Xor32(Xor32(rd.jiffies, rd.cycles), rd.rand)
    ELSE Xor32(rd.jiffies, rd.cycles)

\* the number of passes of the two loops: one per key word and nonce word
InitReadings == CHACHA_KEY_SIZE_WORDS + 3

\* the pass in which word i of the block is mixed: the key words in the
\* first loop, the nonce words in the second
ReadingOf(i) ==
    IF i \in KeyIdx THEN i - 4 ELSE CHACHA_KEY_SIZE_WORDS + (i - CounterIdx)

\* lrng_cc20_init_state(state) on memory holding the 16 words s; ent is the
\* sequence of the InitReadings sets of readings, in the order they are taken
lrng_cc20_init_state(s, ent) ==
    [state |-> Array([i \in 1..CHACHA_BLOCK_WORDS |->
                   IF i \in ConstIdx THEN BytesToWords(TagBytes)[i]
                   ELSE IF i \in KeyIdx \/ i \in NonceIdx
                   THEN Xor32(s[i], EntropyWord(ent[ReadingOf(i)]))
                   ELSE s[i]]),
     ev    |-> <<"init">>]

EINVAL == 22
ENOMEM == 12

\* mutant of lrng_cc20_drng_alloc: the strength test is >= instead of >
alloc_RejectsKeySize(sec_strength, kmalloc_ok, junk, ent) ==
    IF sec_strength >= CHACHA_KEY_SIZE
    THEN [ret |-> EINVAL, kmalloc |-> FALSE, state |-> ZeroState, ev |-> <<>>]
    ELSE IF ~kmalloc_ok
    THEN [ret |-> ENOMEM, kmalloc |-> FALSE, state |-> ZeroState, ev |-> <<"kmalloc">>]
    ELSE Let(lrng_cc20_init_state(junk, ent), LAMBDA i :
             [ret |-> 0, kmalloc |-> TRUE, state |-> i.state, ev |-> <<"kmalloc">> \o i.ev])

\* lrng_cc20_drng_alloc(sec_strength); kmalloc_ok: whether kmalloc finds
\* storage; junk: the 16 words the fresh storage holds.  ret is 0 for a valid
\* pointer and the errno of the ERR_PTR otherwise.
lrng_cc20_drng_alloc(sec_strength, kmalloc_ok, junk, ent) ==
    IF sec_strength > CHACHA_KEY_SIZE
    THEN [ret |-> EINVAL, kmalloc |-> FALSE, state |-> ZeroState, ev |-> <<>>]
    ELSE IF ~kmalloc_ok
    THEN [ret |-> ENOMEM, kmalloc |-> FALSE, state |-> ZeroState, ev |-> <<"kmalloc">>]
    ELSE Let(lrng_cc20_init_state(junk, ent), LAMBDA i :
             [ret |-> 0, kmalloc |-> TRUE, state |-> i.state, ev |-> <<"kmalloc">> \o i.ev])

\* the two static memory blocks primary_chacha20 and secondary_chacha20
StaticBlocks == {"primary_chacha20", "secondary_chacha20"}

\* mutant of lrng_cc20_drng_dealloc: a static block is left as it is
dealloc_StaticKept(drng, s) ==
    IF drng \in StaticBlocks
    THEN [state |-> s, kfree |-> FALSE, ev |-> <<>>]
    ELSE [state |-> ZeroState, kfree |-> TRUE, ev |-> <<"zero", "kfree">>]

\* lrng_cc20_drng_dealloc(drng): drng names the storage, s is what it holds
lrng_cc20_drng_dealloc(drng, s) ==
    IF drng \in StaticBlocks
    THEN [state |-> ZeroState, kfree |-> FALSE, ev |-> <<"zero">>]
    ELSE [state |-> ZeroState, kfree |-> TRUE, ev |-> <<"zero", "kfree">>]

(***************************************************************************)
(* Inputs                                                                  *)
(***************************************************************************)
\* The readings of one initialisation, one set per pass:
\*  - every source steady, arch_get_random_seed_long succeeding;
\*  - jiffies ticking once per pass across its wrap-around, the cycle counter
\*    advancing by 16 per pass, arch_get_random_seed_long succeeding in the
\*    even passes only and arch_get_random_long in every third pass, both
\*    giving a new value each time (so passes 3 and 9 take the value of
\*    arch_get_random_long, and passes 1, 5, 7 and 11 have no arch value).
Entropy ==
    { [k \in 1..InitReadings |->
         [jiffies |-> U32(65535, 35536), cycles |-> U32(4660, 22136),
          seed_ok |-> TRUE, seed |-> U32(51966, 47806),
          rand_ok |-> FALSE, rand |-> Zero32]],
      [k \in 1..InitReadings |->
         [jiffies |-> Add32(U32(65535, 65530), U32(0, k - 1)),
          cycles |-> U32(65535, 16 * (k - 1)),
          seed_ok |-> (k % 2 = 0), seed |-> U32(51966 - k, 47806),
          rand_ok |-> (k % 3 = 0), rand |-> U32(k, 57005)]] }

\* what freshly allocated storage may hold: zeros, ones, or a pattern that
\* differs from word to word
HeapJunk ==
    { Array([i \in 1..CHACHA_BLOCK_WORDS |-> Zero32]),
      Array([i \in 1..CHACHA_BLOCK_WORDS |-> Ones32]),
      Array([i \in 1..CHACHA_BLOCK_WORDS |-> U32(i, 23130)]) }

\* what an uninitialised aligned_buf may hold
StackJunk == { Array([i \in 1..CHACHA_BLOCK_WORDS |-> Zero32]),
               Array([i \in 1..CHACHA_BLOCK_WORDS |-> Ones32]) }

Strengths == {16, CHACHA_KEY_SIZE, CHACHA_KEY_SIZE + 1}

Bytes(n, a, d) == Array([i \in 1..n |-> (a + d * i) % 256])

\* seed inputs and output lengths of a sequence of calls
SeedInputs == { <<>>, Bytes(33, 7, 5) }
GenerateLens == { 0, 30, 70 }
FullLens == { 20, 64 }

\* seed inputs and output lengths of a single call
SeedInputsWide ==
    { <<>>, Bytes(1, 255, 0), Bytes(5, 1, 1), Bytes(31, 9, 3), Bytes(32, 0, 85),
      Bytes(33, 7, 5), Bytes(64, 2, 11), Bytes(65, 3, 13), Bytes(96, 4, 17) }
GenerateLensWide == { 0, 1, 4, 29, 30, 32, 33, 40, 63, 64, 65, 70, 128, 130 }
FullLensWide == { 0, 1, 20, 31, 32, 33, 63, 64, 65, 96, 100, 128 }

\* nonce words at and next to the wrap-around, and the nonces made of them
NonceEdgeWords == { Zero32, Ones32, U32(0, 5) }
NonceEdges == { <<a, b, c>> : a \in NonceEdgeWords, b \in NonceEdgeWords, c \in NonceEdgeWords }

\* freshly allocated storage whose content makes lrng_cc20_init_state, with
\* the entropy ent, leave the nonce n
NonceJunk(ent, n) ==
    Array([i \in 1..CHACHA_BLOCK_WORDS |->
              IF i \in NonceIdx THEN Xor32(n[i - CounterIdx], EntropyWord(ent[ReadingOf(i)]))
              ELSE U32(i, 23130)])

\* the arguments of a single lrng_chacha20_update: the words buf points to
\* and used_words
UpdateBufs == HeapJunk \cup { Array([i \in 1..CHACHA_BLOCK_WORDS |-> U32(43690, 256 * i)]) }
UpdateUsed == { 1, 7, 8, 9, 16 }

(***************************************************************************)
(* State                                                                   *)
(***************************************************************************)
VARIABLES
    drng,        \* the storage the handle names: "none" before any, else a static block or "heap"
    status,      \* "unborn", "live" (initialised), "dead" (deallocated)
    block,       \* the 16 words of that storage
    allocated,   \* whether heap storage is held (kmalloc'ed and not yet freed)
    calls,       \* helper calls made on the handle
    last,        \* the last operation: its inputs, the state before it, its results
    prev,        \* the operation before the last one
    twin         \* a second copy of the generator, driven by the same calls

cvars == <<drng, status, block, allocated, calls, last, prev, twin>>

(***************************************************************************)
(* State of lrng_numa.c: the per-NUMA-node table and the executions of the *)
(* worker _lrng_drngs_numa_alloc                                           *)
(***************************************************************************)
\* nr_node_ids, and the number of executions of the worker
NrNodeIds == 3
MaxRuns == 2

NULL == 0
Nodes == 0..(NrNodeIds - 1)
Runs == 1..MaxRuns

\* the instance lrng_drng_init_instance() returns; instances the worker
\* allocates are numbered from InitInstance + 1
InitInstance == 1

\* LRNG_DRNG_SECURITY_STRENGTH_BYTES, the strength the worker asks for
LRNG_DRNG_SECURITY_STRENGTH_BYTES == CHACHA_KEY_SIZE

VARIABLES
    lrng_drng,   \* the published table: NULL, or the execution whose array drngs it points to
    mutex,       \* lrng_crypto_cb_update: NULL when free, else the execution holding it
    online,      \* the online nodes
    work,        \* per execution: its position and locals, and what it allocated and freed
    arrays,      \* per execution: the array drngs (kcalloc'ed, entries per node, kfree count)
    inst,        \* the struct lrng_drng wrappers the executions allocated, in order
    init_inst,   \* the initial instance: how often it was deallocated and freed
    pool_nodes   \* calls of lrng_pool_inc_numa_node()

nvars == <<lrng_drng, mutex, online, work, arrays, inst, init_inst, pool_nodes>>

vars == <<cvars, nvars>>

\* an execution not yet started
WorkStart ==
    [pc |-> "start", todo |-> <<>>, init_drng_used |-> FALSE, saw |-> NULL,
     failed |-> FALSE, allocs |-> 0, frees |-> 0]

\* no array
NoArray == [allocated |-> FALSE, freed |-> 0, entries |-> [n \in Nodes |-> NULL]]

\* the state of lrng_numa.c before the worker is scheduled, with the nodes on online
NumaStart(on) ==
    /\ lrng_drng = NULL
    /\ mutex = NULL
    /\ online = on
    /\ work = [w \in Runs |-> WorkStart]
    /\ arrays = [w \in Runs |-> NoArray]
    /\ inst = <<>>
    /\ init_inst = [dealloc |-> 0, freed |-> 0]
    /\ pool_nodes = 0

\* a system with one node: the worker is never scheduled
NumaIdle == NumaStart({0})

\* the record kept of an operation: its name, its argument (a length or a
\* strength), the seed input, whether kmalloc had storage, the 16 words before
\* it, the output buffer after it, its return value and the steps it took
Done(op, arg, inbuf, avail, pre, buf, ret, ev) ==
    [op |-> op, arg |-> arg, inbuf |-> inbuf, avail |-> avail, pre |-> pre,
     buf |-> buf, ret |-> ret, ev |-> ev]

NoOp == Done("none", 0, <<>>, TRUE, ZeroState, <<>>, 0, <<>>)

Init ==
    /\ drng = "none"
    /\ status = "unborn"
    /\ block = ZeroState
    /\ allocated = FALSE
    /\ calls = 0
    /\ last = NoOp
    /\ prev = NoOp
    /\ twin = [state |-> ZeroState, buf |-> <<>>]
    /\ NumaIdle

(***************************************************************************)
(* Operations                                                              *)
(***************************************************************************)
\* lrng_cc20_init_state(&primary_chacha20) or (&secondary_chacha20)
InitState(b, ent) ==
    /\ status = "unborn"
    /\ \E r \in {lrng_cc20_init_state(block, ent)} :
           /\ block' = r.state
           /\ twin' = [state |-> r.state, buf |-> <<>>]
           /\ last' = Done("init_state", 0, <<>>, TRUE, block, <<>>, 0, r.ev)
    /\ prev' = last
    /\ drng' = b
    /\ status' = "live"
    /\ UNCHANGED <<allocated, calls, nvars>>

\* lrng_cc20_drng_alloc(sec_strength)
Alloc(sec_strength, kmalloc_ok, junk, ent) ==
    /\ status = "unborn"
    /\ \E r \in {lrng_cc20_drng_alloc(sec_strength, kmalloc_ok, junk, ent)} :
           /\ last' = Done("alloc", sec_strength, <<>>, kmalloc_ok, block, <<>>, r.ret, r.ev)
           /\ allocated' = r.kmalloc
           /\ IF r.ret = 0
              THEN /\ drng' = "heap"
                   /\ status' = "live"
                   /\ block' = r.state
                   /\ twin' = [state |-> r.state, buf |-> <<>>]
              ELSE UNCHANGED <<drng, status, block, twin>>
    /\ prev' = last
    /\ UNCHANGED <<calls, nvars>>

\* lrng_cc20_drng_dealloc(drng)
Dealloc ==
    /\ status = "live"
    /\ \E r \in {lrng_cc20_drng_dealloc(drng, block)} :
           /\ block' = r.state
           /\ twin' = [state |-> r.state, buf |-> <<>>]
           /\ allocated' = (allocated /\ ~r.kfree)
           /\ last' = Done("dealloc", 0, <<>>, TRUE, block, <<>>, 0, r.ev)
    /\ prev' = last
    /\ status' = "dead"
    /\ UNCHANGED <<drng, calls, nvars>>

\* lrng_cc20_drng_seed_helper(drng, inbuf, inbuflen)
Seed(inbuf) ==
    /\ status = "live"
    /\ \E r \in {lrng_cc20_drng_seed_helper(block, inbuf)},
          t \in {lrng_cc20_drng_seed_helper(twin.state, inbuf)} :
           /\ block' = r.state
           /\ twin' = [state |-> t.state, buf |-> <<>>]
           /\ last' = Done("seed", Len(inbuf), inbuf, TRUE, block, <<>>, r.ret, r.ev)
    /\ prev' = last
    /\ calls' = calls + 1
    /\ UNCHANGED <<drng, status, allocated, nvars>>

\* lrng_cc20_drng_generate_helper(drng, outbuf, outbuflen); the two copies
\* find different junk in their uninitialised aligned_buf
Generate(outbuflen, junk) ==
    /\ status = "live"
    /\ \E r \in {lrng_cc20_drng_generate_helper(block, outbuflen, junk)},
          t \in {lrng_cc20_drng_generate_helper(twin.state, outbuflen,
                                                CHOOSE j \in StackJunk : j # junk)} :
           /\ block' = r.state
           /\ twin' = [state |-> t.state, buf |-> t.buf]
           /\ last' = Done("generate", outbuflen, <<>>, TRUE, block, r.buf, r.ret, r.ev)
    /\ prev' = last
    /\ calls' = calls + 1
    /\ UNCHANGED <<drng, status, allocated, nvars>>

\* lrng_cc20_drng_generate_helper_full(drng, outbuf, outbuflen)
GenerateFull(outbuflen) ==
    /\ status = "live"
    /\ \E r \in {lrng_cc20_drng_generate_helper_full(block, outbuflen)},
          t \in {lrng_cc20_drng_generate_helper_full(twin.state, outbuflen)} :
           /\ block' = r.state
           /\ twin' = [state |-> t.state, buf |-> t.buf]
           /\ last' = Done("generate_full", outbuflen, <<>>, TRUE, block, r.buf, r.ret, r.ev)
    /\ prev' = last
    /\ calls' = calls + 1
    /\ UNCHANGED <<drng, status, allocated, nvars>>

Provision ==
    \/ \E b \in StaticBlocks, ent \in Entropy : InitState(b, ent)
    \/ \E n \in Strengths, ok \in BOOLEAN, junk \in HeapJunk, ent \in Entropy :
           Alloc(n, ok, junk, ent)

\* the life of one handle: provisioning, at most MaxCalls helper calls, deallocation
Next ==
    \/ Provision
    \/ calls < MaxCalls /\ \E inbuf \in SeedInputs : Seed(inbuf)
    \/ calls < MaxCalls /\ \E n \in GenerateLens, junk \in StackJunk : Generate(n, junk)
    \/ calls < MaxCalls /\ \E n \in FullLens : GenerateFull(n)
    \/ Dealloc

Spec == Init /\ [][Next]_vars

\* one helper call, with inputs from the wide sets, on a freshly provisioned handle
InitCall ==
    /\ \E b \in StaticBlocks \cup {"heap"}, ent \in Entropy :
       \E mem \in (IF b = "heap" THEN HeapJunk ELSE {ZeroState}) :
          \E r \in {lrng_cc20_init_state(mem, ent)} :
              /\ drng = b
              /\ block = r.state
              /\ twin = [state |-> r.state, buf |-> <<>>]
              /\ allocated = (b = "heap")
              /\ last = Done("init_state", 0, <<>>, TRUE, mem, <<>>, 0, r.ev)
    /\ prev = NoOp
    /\ status = "live"
    /\ calls = 0
    /\ NumaIdle

NextCall ==
    \/ calls = 0 /\ \E inbuf \in SeedInputsWide : Seed(inbuf)
    \/ calls = 0 /\ \E n \in GenerateLensWide, junk \in StackJunk : Generate(n, junk)
    \/ calls = 0 /\ \E n \in FullLensWide : GenerateFull(n)

SpecCall == InitCall /\ [][NextCall]_vars

\* lrng_chacha20_update(chacha20_state, buf, used_words) on its own
Update(buf, used_words) ==
    /\ status = "live"
    /\ \E r \in {lrng_chacha20_update(block, buf, used_words)} :
           /\ block' = r.state
           /\ twin' = [state |-> r.state, buf |-> <<>>]
           /\ last' = Done("update", used_words, <<>>, TRUE, block, buf, 0, r.ev)
    /\ prev' = last
    /\ calls' = calls + 1
    /\ UNCHANGED <<drng, status, allocated, nvars>>

\* a handle on heap storage, initialised to a nonce at or next to the wrap-around
InitUpdate ==
    /\ \E ent \in Entropy, n \in NonceEdges :
       \E r \in {lrng_cc20_init_state(NonceJunk(ent, n), ent)} :
           /\ block = r.state
           /\ twin = [state |-> r.state, buf |-> <<>>]
           /\ last = Done("init_state", 0, <<>>, TRUE, NonceJunk(ent, n), <<>>, 0, r.ev)
    /\ drng = "heap"
    /\ allocated = TRUE
    /\ prev = NoOp
    /\ status = "live"
    /\ calls = 0
    /\ NumaIdle

NextUpdate ==
    calls = 0 /\ \E buf \in UpdateBufs, used_words \in UpdateUsed : Update(buf, used_words)

\* one update, from every nonce of NonceEdges
SpecUpdate == InitUpdate /\ [][NextUpdate]_vars

(***************************************************************************)
(* _lrng_drngs_numa_alloc                                                  *)
(***************************************************************************)
\* for_each_online_node: the online nodes in ascending order
RECURSIVE Ascending(_)
Ascending(S) ==
    IF S = {} THEN <<>>
    ELSE Let(CHOOSE x \in S : \A y \in S : x <= y,
             LAMBDA m : <<m>> \o Ascending(S \ {m}))

\* the crypto callbacks of the initial instance
InitCryptoCb == "lrng_cc20_crypto_cb"

\* the wrapper of instance number id
Wrapper(id) == inst[id - InitInstance]

\* mutant of TablePresent: the test of lrng_drng is left out
TablePresent_NotTested(table) == FALSE

\* if (lrng_drng)
TablePresent(table) == table # NULL

\* mutant of AllocNode: a failed allocation of the DRNG state is not noticed
AllocNode_ErrorIgnored(w, node, ret) ==
    [wrapper |-> [owner |-> w, node |-> node, crypto_cb |-> InitCryptoCb, drng |-> ret,
                  lock |-> TRUE, spin_lock |-> TRUE, reset |-> TRUE,
                  dealloc |-> 0, freed |-> 0],
     stored  |-> TRUE]

\* the body of the first loop for a node other than the first: the wrapper
\* it leaves behind, and whether the wrapper was stored in drngs[node];
\* ret is what lrng_drng_alloc returned (0, or an error)
AllocNode(w, node, ret) ==
    IF ret # 0
    THEN [wrapper |-> [owner |-> w, node |-> node, crypto_cb |-> InitCryptoCb, drng |-> ret,
                       lock |-> FALSE, spin_lock |-> FALSE, reset |-> FALSE,
                       dealloc |-> 0, freed |-> 1],
          stored  |-> FALSE]
    ELSE [wrapper |-> [owner |-> w, node |-> node, crypto_cb |-> InitCryptoCb, drng |-> ret,
                       lock |-> TRUE, spin_lock |-> TRUE, reset |-> TRUE,
                       dealloc |-> 0, freed |-> 0],
          stored  |-> TRUE]

\* mutant of ErrNode: the initial instance is not skipped
ErrNode_InitNotSkipped(entry) ==
    IF entry # NULL THEN "release" ELSE "skip"

\* the body of the loop at err: for the entry of a node, whether it is
\* skipped or its DRNG state deallocated and its wrapper freed
ErrNode(entry) ==
    IF entry = InitInstance THEN "skip"
    ELSE IF entry # NULL THEN "release"
    ELSE "skip"

\* mutex_lock(&lrng_crypto_cb_update)
NumaLock(w) ==
    /\ work[w].pc = "start"
    /\ mutex = NULL
    /\ mutex' = w
    /\ work' = [work EXCEPT ![w].pc = "check"]
    /\ UNCHANGED <<lrng_drng, online, arrays, inst, init_inst, pool_nodes, cvars>>

\* if (lrng_drng) goto unlock; drngs = kcalloc(nr_node_ids, ...)
NumaCheck(w) ==
    /\ work[w].pc = "check"
    /\ IF TablePresent(lrng_drng)
       THEN /\ work' = [work EXCEPT ![w].pc = "unlock", ![w].saw = lrng_drng]
            /\ UNCHANGED arrays
       ELSE /\ work' = [work EXCEPT ![w].pc = "loop", ![w].saw = lrng_drng,
                                    ![w].todo = Ascending(online),
                                    ![w].allocs = @ + 1]
            /\ arrays' = [arrays EXCEPT ![w] =
                             [allocated |-> TRUE, freed |-> 0,
                              entries |-> [n \in Nodes |-> NULL]]]
    /\ UNCHANGED <<lrng_drng, mutex, online, inst, init_inst, pool_nodes, cvars>>

\* one iteration of the first for_each_online_node loop
NumaNode(w, kmalloc_ok, junk, ent) ==
    /\ work[w].pc = "loop"
    /\ work[w].todo # <<>>
    /\ \E node \in {Head(work[w].todo)} :
         IF ~work[w].init_drng_used
         THEN /\ arrays' = [arrays EXCEPT ![w].entries[node] = InitInstance]
              /\ work' = [work EXCEPT ![w].init_drng_used = TRUE,
                                      ![w].todo = Tail(@)]
              /\ UNCHANGED <<inst, pool_nodes>>
         ELSE \E a \in {AllocNode(w, node,
                            lrng_cc20_drng_alloc(LRNG_DRNG_SECURITY_STRENGTH_BYTES,
                                                 kmalloc_ok, junk, ent).ret)} :
              /\ inst' = Append(inst, a.wrapper)
              /\ IF a.stored
                 THEN /\ arrays' = [arrays EXCEPT ![w].entries[node] =
                                        InitInstance + Len(inst) + 1]
                      /\ pool_nodes' = pool_nodes + 1
                      /\ work' = [work EXCEPT ![w].todo = Tail(@),
                                              ![w].allocs = @ + 1]
                 ELSE /\ work' = [work EXCEPT ![w].pc = "err", ![w].failed = TRUE,
                                              ![w].todo = Ascending(online),
                                              ![w].allocs = @ + 1,
                                              ![w].frees = @ + 1]
                      /\ UNCHANGED <<arrays, pool_nodes>>
    /\ UNCHANGED <<lrng_drng, mutex, online, init_inst, cvars>>

\* mb(); if (!cmpxchg(&lrng_drng, NULL, drngs)) goto unlock;
NumaPublish(w) ==
    /\ work[w].pc = "loop"
    /\ work[w].todo = <<>>
    /\ IF lrng_drng = NULL
       THEN /\ lrng_drng' = w
            /\ work' = [work EXCEPT ![w].pc = "unlock"]
       ELSE /\ work' = [work EXCEPT ![w].pc = "err", ![w].failed = TRUE,
                                    ![w].todo = Ascending(online)]
            /\ UNCHANGED lrng_drng
    /\ UNCHANGED <<mutex, online, arrays, inst, init_inst, pool_nodes, cvars>>

\* one iteration of the for_each_online_node loop at err
NumaErr(w) ==
    /\ work[w].pc = "err"
    /\ work[w].todo # <<>>
    /\ \E entry \in {arrays[w].entries[Head(work[w].todo)]} :
         IF ErrNode(entry) = "skip"
         THEN /\ work' = [work EXCEPT ![w].todo = Tail(@)]
              /\ UNCHANGED <<inst, init_inst>>
         ELSE /\ work' = [work EXCEPT ![w].todo = Tail(@), ![w].frees = @ + 1]
              /\ IF entry = InitInstance
                 THEN /\ init_inst' = [dealloc |-> init_inst.dealloc + 1,
                                       freed |-> init_inst.freed + 1]
                      /\ UNCHANGED inst
                 ELSE /\ inst' = [inst EXCEPT ![entry - InitInstance].dealloc = @ + 1,
                                              ![entry - InitInstance].freed = @ + 1]
                      /\ UNCHANGED init_inst
    /\ UNCHANGED <<lrng_drng, mutex, online, arrays, pool_nodes, cvars>>

\* kfree(drngs)
NumaErrFree(w) ==
    /\ work[w].pc = "err"
    /\ work[w].todo = <<>>
    /\ arrays' = [arrays EXCEPT ![w].freed = @ + 1]
    /\ work' = [work EXCEPT ![w].pc = "unlock", ![w].frees = @ + 1]
    /\ UNCHANGED <<lrng_drng, mutex, online, inst, init_inst, pool_nodes, cvars>>

\* unlock: mutex_unlock(&lrng_crypto_cb_update)
NumaUnlock(w) ==
    /\ work[w].pc = "unlock"
    /\ mutex' = NULL
    /\ work' = [work EXCEPT ![w].pc = "done"]
    /\ UNCHANGED <<lrng_drng, online, arrays, inst, init_inst, pool_nodes, cvars>>

\* no execution of the worker has started; any nonempty set of nodes is online
InitNuma ==
    /\ drng = "none"
    /\ status = "unborn"
    /\ block = ZeroState
    /\ allocated = FALSE
    /\ calls = 0
    /\ last = NoOp
    /\ prev = NoOp
    /\ twin = [state |-> ZeroState, buf |-> <<>>]
    /\ \E on \in (SUBSET Nodes) \ {{}} : NumaStart(on)

NextNuma ==
    \/ \E w \in Runs : NumaLock(w)
    \/ \E w \in Runs : NumaCheck(w)
    \/ \E w \in Runs, ok \in BOOLEAN, junk \in HeapJunk, ent \in Entropy :
           NumaNode(w, ok, junk, ent)
    \/ \E w \in Runs : NumaPublish(w)
    \/ \E w \in Runs : NumaErr(w)
    \/ \E w \in Runs : NumaErrFree(w)
    \/ \E w \in Runs : NumaUnlock(w)

\* MaxRuns executions of the worker, scheduled in any order
SpecNuma == InitNuma /\ [][NextNuma]_vars

(***************************************************************************)
(* Properties                                                              *)
(***************************************************************************)
\* the bytes the last call returned, and the guard bytes behind them
Out == SubSeq(last.buf, 1, last.arg)
Guard == SubSeq(last.buf, last.arg + 1, Len(last.buf))

Count(ev, x) == Cardinality({i \in 1..Len(ev) : ev[i] = x})
CeilDiv(n, d) == (n + d - 1) \div d

\* the state s after n more invocations of the block function
AfterBlocks(s, n) == [s EXCEPT ![CounterIdx] = Add32(s[CounterIdx], U32(0, n))]

\* the first n blocks of keystream from state s, each a full 64-byte block
RECURSIVE Keystream(_, _, _)
Keystream(s, i, n) ==
    IF i >= n THEN <<>>
    ELSE WordsToBytes(BlockWords(AfterBlocks(s, i))) \o Keystream(s, i + 1, n)

\* XOR, word by word, of two equally long u32 arrays
XorWords(a, b) == Array([i \in 1..Len(a) |-> Xor32(a[i], b[i])])

\* one block folded: word j of the lower half XOR word j of the upper half
FoldedBlock(s) ==
    LET w == BlockWords(s)
    IN  WordsToBytes(XorWords(SubSeq(w, 1, CHACHA_BLOCK_WORDS \div 2),
                              SubSeq(w, (CHACHA_BLOCK_WORDS \div 2) + 1, CHACHA_BLOCK_WORDS)))

RECURSIVE FoldedStream(_, _, _)
FoldedStream(s, i, n) ==
    IF i >= n THEN <<>>
    ELSE FoldedBlock(AfterBlocks(s, i)) \o FoldedStream(s, i + 1, n)

\* C1: generate_full returns, for every length, exactly that many bytes, the
\* i-th 32-byte chunk being the word-by-word XOR of the two halves of the i-th
\* block of the call (the last chunk a prefix of it), also for lengths of one
\* block and more.
C1_FullFoldEveryLength ==
    last.op = "generate_full" =>
        /\ last.ret = last.arg
        /\ Out = SubSeq(FoldedStream(last.pre, 0, CeilDiv(last.arg, CHACHA_KEY_SIZE)),
                        1, last.arg)

\* C2: every generate and generate_full call, for every length, performs
\* exactly one update, after its last output byte and as its last change of
\* the state.
C2_OneUpdateAfterOutput ==
    last.op \in {"generate", "generate_full"} =>
        /\ Count(last.ev, "update") = 1
        /\ \A i, j \in 1..Len(last.ev) :
               last.ev[i] = "update" /\ last.ev[j] = "out" => j < i
        /\ \A i, j \in 1..Len(last.ev) :
               last.ev[i] = "update" /\ j > i + 1 => last.ev[j] = "wipe"

C2_Witness ==
    /\ last.op = "generate"
    /\ last.arg = 0
    /\ last.ev = <<"update", "block">>

\* C3: generate returns length and writes exactly length bytes: the successive
\* full blocks computed from the key and nonce the call started with,
\* truncated to length.
C3_StandardStream ==
    last.op = "generate" =>
        /\ last.ret = last.arg
        /\ Out = SubSeq(Keystream(last.pre, 0, CeilDiv(last.arg, CHACHA_BLOCK_SIZE)),
                        1, last.arg)
        /\ \A i \in 1..Len(Guard) : Guard[i] = Unwritten

C3_Witness ==
    /\ last.op = "generate"
    /\ last.arg > 2 * CHACHA_BLOCK_SIZE
    /\ last.arg % CHACHA_BLOCK_SIZE # 0
    /\ Len(Out) = last.arg

\* C4: initialisation (lrng_cc20_init_state, also as run by allocate) applies
\* exactly one update after mixing the entropy in.
C4_InitAppliesUpdate ==
    (last.op = "init_state" \/ (last.op = "alloc" /\ last.ret = 0)) =>
        Count(last.ev, "update") = 1

\* C5: seed(A \o B) with Len(A) a multiple of the key size leaves the state
\* seed(A) followed by seed(B) leaves.
C5_SeedChunkAssociative ==
    last.op = "seed" =>
        \A k \in 0..(Len(last.inbuf) \div CHACHA_KEY_SIZE) :
            LET A == SubSeq(last.inbuf, 1, k * CHACHA_KEY_SIZE)
                B == SubSeq(last.inbuf, k * CHACHA_KEY_SIZE + 1, Len(last.inbuf))
            IN  lrng_cc20_drng_seed_helper(
                    lrng_cc20_drng_seed_helper(last.pre, A).state, B).state = block

C5_Witness ==
    /\ last.op = "seed"
    /\ Len(last.inbuf) > 2 * CHACHA_KEY_SIZE
    /\ Len(last.inbuf) % CHACHA_KEY_SIZE # 0
    /\ block # last.pre

\* C6: seed with an empty input returns success, invokes neither the block
\* function nor the update, and leaves every word of the state unchanged.
C6_EmptySeedNoOp ==
    (last.op = "seed" /\ last.inbuf = <<>>) =>
        /\ last.ret = 0
        /\ last.ev = <<>>
        /\ block = last.pre

C6_Witness ==
    /\ last.op = "seed"
    /\ last.inbuf = <<>>
    /\ Key(block) # Key(ZeroState)

\* C7: allocate fails with -EINVAL, allocating and initialising nothing, when
\* the strength exceeds the key size; for every other strength it returns an
\* initialised state when kmalloc has storage, and -ENOMEM when it has none.
C7_AllocBounds ==
    last.op = "alloc" =>
        /\ last.arg > CHACHA_KEY_SIZE =>
               /\ last.ret = EINVAL
               /\ last.ev = <<>>
               /\ ~allocated
               /\ status = "unborn"
               /\ block = last.pre
        /\ (last.arg <= CHACHA_KEY_SIZE /\ last.avail) =>
               /\ last.ret = 0
               /\ allocated
               /\ status = "live"
               /\ drng = "heap"
               /\ last.ev = <<"kmalloc", "init">>
               /\ Constants(block) = BytesToWords(TagBytes)
        /\ (last.arg <= CHACHA_KEY_SIZE /\ ~last.avail) =>
               /\ last.ret = ENOMEM
               /\ ~allocated
               /\ status = "unborn"

C7_Witness ==
    /\ last.op = "alloc"
    /\ last.arg = CHACHA_KEY_SIZE
    /\ last.avail
    /\ status = "live"

\* C8: deallocate zeroes all 16 words, whatever happened before: a static
\* block in place, without freeing it; heap storage before it is released.
C8_DeallocZeroizes ==
    last.op = "dealloc" =>
        /\ block = ZeroState
        /\ drng \in StaticBlocks => last.ev = <<"zero">>
        /\ drng \notin StaticBlocks => (last.ev = <<"zero", "kfree">> /\ ~allocated)

C8_Witness ==
    /\ last.op = "dealloc"
    /\ drng \in StaticBlocks
    /\ calls > 0
    /\ \A i \in KeyIdx \cup NonceIdx : last.pre[i] # Zero32
    /\ block = ZeroState

\* C9: from initialisation to deallocation the four constants words hold the
\* tag set at initialisation, whatever calls are made.
C9_ConstantsImmutable ==
    status = "live" => Constants(block) = BytesToWords(TagBytes)

C9_Witness ==
    /\ status = "live"
    /\ calls > 1
    /\ last.op \in {"seed", "generate", "generate_full"}
    /\ Key(block) # Key(last.pre)

\* C10: two copies started from the same state and driven by the same calls
\* are in the same state after every call and returned the same bytes,
\* whatever their uninitialised aligned_buf held.
C10_Determinism ==
    /\ twin.state = block
    /\ last.op \in {"generate", "generate_full"} => twin.buf = last.buf

C10_Witness ==
    /\ last.op = "generate"
    /\ last.arg % CHACHA_BLOCK_SIZE = 0
    /\ calls > 1
    /\ twin.state = block

\* the bytes the call before the last returned
PrevOut == SubSeq(prev.buf, 1, prev.arg)

\* C11: after generate(n1) with n1 not a multiple of the block size, the key
\* and the nonce differ from those the first call started with, and the bytes
\* of a following generate(n2) are the keystream of that updated state: they
\* are neither the continuation of the first call's keystream nor the bytes
\* n1+1..n1+n2 of a single generate(n1+n2) from the first call's start state.
C11_NonContinuity ==
    (last.op = "generate" /\ prev.op = "generate"
        /\ prev.arg % CHACHA_BLOCK_SIZE # 0 /\ last.arg > 0) =>
        LET n1  == prev.arg
            n2  == last.arg
            b1  == CeilDiv(n1, CHACHA_BLOCK_SIZE)
            b2  == CeilDiv(n2, CHACHA_BLOCK_SIZE)
            one == SubSeq(lrng_cc20_drng_generate_helper(prev.pre, n1 + n2, ZeroState).buf,
                          1, n1 + n2)
        IN  /\ Key(last.pre) # Key(prev.pre)
            /\ Nonce(last.pre) # Nonce(prev.pre)
            /\ Out = SubSeq(Keystream(last.pre, 0, b2), 1, n2)
            /\ Out # SubSeq(Keystream(prev.pre, b1, b1 + b2), 1, n2)
            /\ Out # SubSeq(one, n1 + 1, n1 + n2)
            /\ PrevOut \o Out # one

C11_Witness ==
    /\ last.op = "generate"
    /\ prev.op = "generate"
    /\ prev.arg % CHACHA_BLOCK_SIZE # 0
    /\ last.arg > CHACHA_BLOCK_SIZE
    /\ PrevOut \o Out # <<>>

\* C12: every update advances the 96-bit little-endian nonce by exactly one:
\* word 0 is incremented, word 1 is incremented only when word 0 wrapped to
\* zero, and word 2 only when word 1 wrapped to zero in this update.
C12_NonceAddsOne ==
    last.op = "update" =>
        LET n  == Nonce(last.pre)
            m  == Nonce(block)
            w0 == Inc32(n[1])
            w1 == IF w0 = Zero32 THEN Inc32(n[2]) ELSE n[2]
            w2 == IF w0 = Zero32 /\ w1 = Zero32 THEN Inc32(n[3]) ELSE n[3]
        IN  m = <<w0, w1, w2>>

\* what the update at the end of the last generate call did to the key, when
\* the carry of the final partial block is reused exactly if that block left
\* at least minCarry of its words undisclosed: with a carry, no further block
\* is generated and the words after the disclosed ones are XORed onto the key;
\* otherwise one more block is generated and its first half is XORed onto it
UpdateBranches(minCarry) ==
    LET rem   == last.arg % CHACHA_BLOCK_SIZE
        full  == last.arg \div CHACHA_BLOCK_SIZE
        out   == CeilDiv(last.arg, CHACHA_BLOCK_SIZE)
        used  == CeilDiv(rem, 4)
        carry == BlockWords(AfterBlocks(last.pre, full))
        fresh == BlockWords(AfterBlocks(last.pre, out))
    IN  IF rem # 0 /\ CHACHA_BLOCK_WORDS - used >= minCarry
        THEN /\ Count(last.ev, "block") = out
             /\ Key(block) = XorWords(Key(last.pre),
                                      SubSeq(carry, used + 1, used + CHACHA_KEY_SIZE_WORDS))
        ELSE /\ Count(last.ev, "block") = out + 1
             /\ Key(block) = XorWords(Key(last.pre),
                                      SubSeq(fresh, 1, CHACHA_KEY_SIZE_WORDS))

\* C13 as stated: the update reuses the carry only when more than 8 words of
\* the final partial block are undisclosed; with exactly 8 undisclosed words
\* (length mod 64 in 29..32), as without a carry, it generates a fresh block
\* and XORs its first half onto the key.
C13_CarryAboveKeySize ==
    last.op = "generate" => UpdateBranches(CHACHA_KEY_SIZE_WORDS + 1)

\* C13 amended: the update reuses the carry when at least 8 words of the
\* final partial block are undisclosed (length mod 64 in 1..32), XORing the 8
\* words after the disclosed ones onto the key; it generates a fresh block and
\* XORs its first half onto the key when fewer are undisclosed or there is no
\* partial block.
C13_CarryAtLeastKeySize ==
    last.op = "generate" => UpdateBranches(CHACHA_KEY_SIZE_WORDS)

C13_Witness ==
    /\ last.op = "generate"
    /\ last.arg % CHACHA_BLOCK_SIZE \in 29..32
    /\ last.ev = <<"block", "out", "update", "wipe">>
    /\ Key(block) # Key(last.pre)

\* a chunk of at most 32 bytes as 8 words, zero beyond its end
ChunkWords(chunk) ==
    BytesToWords(Array([i \in 1..CHACHA_KEY_SIZE |->
                           IF i <= Len(chunk) THEN chunk[i] ELSE 0]))

\* the state s with the words w XORed onto its key
KeyXored(s, w) ==
    Array([i \in 1..CHACHA_BLOCK_WORDS |-> IF i \in KeyIdx THEN Xor32(s[i], w[i - 4]) ELSE s[i]])

\* the state after the input is absorbed chunk by chunk, each chunk XORed
\* onto the key and followed by an update from a fresh block
RECURSIVE ChunkwiseSeed(_, _)
ChunkwiseSeed(s, inbuf) ==
    IF inbuf = <<>> THEN s
    ELSE LET todo == Min(Len(inbuf), CHACHA_KEY_SIZE)
             x    == KeyXored(s, ChunkWords(SubSeq(inbuf, 1, todo)))
             y    == KeyXored(AfterBlocks(x, 1), SubSeq(BlockWords(x), 1, CHACHA_KEY_SIZE_WORDS))
         IN  ChunkwiseSeed(NonceIncrement(y), SubSeq(inbuf, todo + 1, Len(inbuf)))

RECURSIVE Repeat(_, _)
Repeat(seq, n) == IF n = 0 THEN <<>> ELSE seq \o Repeat(seq, n - 1)

\* C14: seed absorbs its input in chunks of at most 32 bytes in input order,
\* each XORed onto the first bytes of the key and followed at once by one
\* update from a fresh block: ceil(n/32) updates in all, one after a final
\* partial chunk too; seed returns 0.
C14_SeedChunks ==
    last.op = "seed" =>
        /\ last.ret = 0
        /\ last.ev = Repeat(<<"absorb", "update", "block">>,
                            CeilDiv(Len(last.inbuf), CHACHA_KEY_SIZE))
        /\ block = ChunkwiseSeed(last.pre, last.inbuf)

C14_Witness ==
    /\ last.op = "seed"
    /\ Len(last.inbuf) > CHACHA_KEY_SIZE
    /\ Len(last.inbuf) % CHACHA_KEY_SIZE # 0
    /\ Count(last.ev, "update") = CeilDiv(Len(last.inbuf), CHACHA_KEY_SIZE)

\* blocks the last call generated for its output, and updates it made from a
\* fresh block
OutputBlocks ==
    CASE last.op = "generate"      -> CeilDiv(last.arg, CHACHA_BLOCK_SIZE)
      [] last.op = "generate_full" -> CeilDiv(last.arg, CHACHA_KEY_SIZE)
      [] OTHER                     -> 0
FreshUpdates ==
    CASE last.op = "seed"          -> CeilDiv(Len(last.inbuf), CHACHA_KEY_SIZE)
      [] last.op = "generate"      ->
             IF last.arg % CHACHA_BLOCK_SIZE \in 1..CHACHA_KEY_SIZE THEN 0 ELSE 1
      [] last.op = "generate_full" -> 1
      [] OTHER                     -> 0

\* the key after the last call is the key before it with only the words of
\* its final update XORed on
KeyOnlyByUpdate ==
    /\ last.op = "generate" => UpdateBranches(CHACHA_KEY_SIZE_WORDS)
    /\ last.op = "generate_full" =>
           Key(block) = XorWords(Key(last.pre),
                                 SubSeq(BlockWords(AfterBlocks(last.pre, OutputBlocks)),
                                        1, CHACHA_KEY_SIZE_WORDS))

\* a seed, generate or generate_full call keeps the constants and moves the
\* counter by its output blocks plus perUpdate for each update from a fresh
\* block; generate and generate_full change the key only by their update
UpdateFrame(perUpdate) ==
    last.op \in {"seed", "generate", "generate_full"} =>
        /\ Constants(block) = Constants(last.pre)
        /\ Counter(block) =
               Add32(Counter(last.pre), U32(0, OutputBlocks + perUpdate * FreshUpdates))
        /\ KeyOnlyByUpdate

\* C15 as stated: the update leaves constants and counter as they were, in
\* both of its branches, so that a call moves the counter by its output
\* blocks only; generate and generate_full change the key only through their
\* final update.
C15_UpdateKeepsCounter == UpdateFrame(0)

\* C15 amended: the update leaves the constants as they were, and the counter
\* too when it reuses a carry; when it generates a fresh block, the block
\* function advances the counter by one.  Generate and generate_full change
\* the key only through their final update.
C15_UpdateCounterByFreshBlock == UpdateFrame(1)

C15_Witness ==
    /\ last.op = "seed"
    /\ Len(last.inbuf) > CHACHA_KEY_SIZE
    /\ Counter(block) = Add32(Counter(last.pre), U32(0, Count(last.ev, "update")))
    /\ Counter(block) # Counter(last.pre)

\* the last generate call as it stood when it called the update: the state,
\* aligned_buf, used and whether aligned_buf holds a generated block
BeforeUpdate ==
    GeneratePartial(GenerateBlocks(last.pre, NewBuf(last.arg), 0, last.arg, <<>>), ZeroState)

\* every update of the last call generated a fresh block
AllUpdatesFresh ==
    \A i \in 1..Len(last.ev) :
        last.ev[i] = "update" => (i < Len(last.ev) /\ last.ev[i + 1] = "block")

\* C16: no word the update XORs onto the key was disclosed, wholly or partly.
\* In generate, a reused carry is words used..used+7 (counted from 0) of the
\* final partial block, a block that aligned_buf holds, all of them at or
\* above the count of words disclosed and below 16; without a partial block
\* used is 16, the never-written aligned_buf is not read, and a fresh block
\* is generated.  Seed and generate_full always update from a fresh block.
C16_KeyWordsUndisclosed ==
    /\ last.op = "generate" =>
           LET p         == BeforeUpdate
               rem       == last.arg % CHACHA_BLOCK_SIZE
               disclosed == CeilDiv(rem, 4)
               final     == BlockWords(AfterBlocks(last.pre, last.arg \div CHACHA_BLOCK_SIZE))
               fresh     == BlockWords(AfterBlocks(last.pre, CeilDiv(last.arg, CHACHA_BLOCK_SIZE)))
           IN  IF p.used <= CHACHA_KEY_SIZE_WORDS
               THEN /\ p.zeroize_buf
                    /\ p.aligned_buf = final
                    /\ p.used >= disclosed
                    /\ p.used + CHACHA_KEY_SIZE_WORDS <= CHACHA_BLOCK_WORDS
                    /\ Key(block) = XorWords(Key(last.pre),
                                             SubSeq(final, p.used + 1,
                                                    p.used + CHACHA_KEY_SIZE_WORDS))
                    /\ ~AllUpdatesFresh
               ELSE /\ ~p.zeroize_buf => p.used = CHACHA_BLOCK_WORDS
                    /\ AllUpdatesFresh
                    /\ Key(block) = XorWords(Key(last.pre),
                                             SubSeq(fresh, 1, CHACHA_KEY_SIZE_WORDS))
                    /\ twin.state = block
    /\ last.op \in {"seed", "generate_full"} => AllUpdatesFresh

C16_Witness ==
    /\ last.op = "generate"
    /\ last.arg % CHACHA_BLOCK_SIZE = 30
    /\ BeforeUpdate.used = CHACHA_KEY_SIZE_WORDS
    /\ Count(last.ev, "block") = CeilDiv(last.arg, CHACHA_BLOCK_SIZE)

\* where the two loops of the last generate_full call ended
FullLoopsEnd ==
    LET a == FullBlocks(last.pre, NewBuf(last.arg), 0, last.arg, <<>>)
    IN  FullTail(a.state, a.buf, a.pos, a.outbuflen, a.ev)

\* C17: generate_full writes every one of the first length bytes of the
\* output buffer and no byte behind them, for every length; its loops end
\* with nothing left to produce, at the end of the requested bytes.
C17_FullWithinBuffer ==
    last.op = "generate_full" =>
        /\ \A i \in 1..Len(Guard) : Guard[i] = Unwritten
        /\ \A i \in 1..Len(Out) : Out[i] \in 0..255
        /\ Len(last.buf) = last.arg + CHACHA_BLOCK_SIZE
        /\ FullLoopsEnd.outbuflen = 0
        /\ FullLoopsEnd.pos = last.arg
        /\ last.ret = last.arg

C17_Witness ==
    /\ last.op = "generate_full"
    /\ last.arg >= CHACHA_BLOCK_SIZE + (CHACHA_BLOCK_SIZE \div 2)
    /\ last.arg % (CHACHA_BLOCK_SIZE \div 2) # 0
    /\ Out[last.arg] \in 0..255
    /\ Guard[1] = Unwritten

\* the wrappers an execution of the worker allocated
WrappersOf(w) == { i \in 1..Len(inst) : inst[i].owner = w }

\* C18: the table lrng_drng is published at most once: once non-NULL it never
\* changes again, whatever executions of the worker follow; an execution that
\* found the table published ends having allocated nothing and freed nothing,
\* and no execution that has ended still holds the lrng_crypto_cb_update mutex.
C18_PublishedOnce ==
    [][ /\ lrng_drng # NULL => lrng_drng' = lrng_drng
        /\ \A w \in Runs :
              work'[w].pc = "done" =>
                  /\ mutex' # w
                  /\ work'[w].saw # NULL =>
                        /\ work'[w].allocs = 0
                        /\ work'[w].frees = 0
                        /\ ~arrays'[w].allocated
                        /\ WrappersOf(w)' = {} ]_vars

\* one execution published the table, a later one found it and has ended
C18_Witness ==
    \E w \in Runs, v \in Runs :
        /\ lrng_drng = v
        /\ w # v
        /\ work[v].pc = "done"
        /\ work[w].pc = "done"
        /\ work[w].saw = v
        /\ mutex = NULL

\* C19: an execution of the worker that failed has not published its array;
\* every DRNG state it allocated was passed to lrng_drng_dealloc exactly once
\* and its wrapper freed once; the wrapper of the failing node was freed once
\* and its error-valued state never deallocated; the initial instance was
\* neither deallocated nor freed.
C19_FailureReleases ==
    \A w \in Runs :
        (work[w].pc = "done" /\ work[w].failed) =>
            /\ lrng_drng # w
            /\ \A i \in WrappersOf(w) :
                  IF inst[i].drng = 0
                  THEN inst[i].dealloc = 1 /\ inst[i].freed = 1
                  ELSE inst[i].dealloc = 0 /\ inst[i].freed = 1
            /\ init_inst = [dealloc |-> 0, freed |-> 0]

\* an execution failed at a later node after the initial instance and one
\* allocated instance were already entered in its array
C19_Witness ==
    \E w \in Runs :
        /\ work[w].pc = "done"
        /\ work[w].failed
        /\ arrays[w].entries[0] = InitInstance
        /\ \E i \in WrappersOf(w) : inst[i].drng = 0 /\ inst[i].dealloc = 1
        /\ \E i \in WrappersOf(w) : inst[i].drng # 0 /\ inst[i].freed = 1

\* the first online node
FirstOnline == Head(Ascending(online))

\* C20: whenever the table lrng_drng is non-NULL, the entry of the first
\* online node is the initial instance and the entry of every other online
\* node is an instance of its own, with a successfully allocated state, the
\* crypto callbacks of the initial instance, both locks initialised and
\* lrng_drng_reset applied, and none of it released.
C20_TableComplete ==
    lrng_drng # NULL =>
        LET drngs == arrays[lrng_drng]
        IN  /\ drngs.allocated
            /\ drngs.freed = 0
            /\ drngs.entries[FirstOnline] = InitInstance
            /\ init_inst = [dealloc |-> 0, freed |-> 0]
            /\ \A n \in online \ {FirstOnline} :
                  /\ drngs.entries[n] > InitInstance
                  /\ drngs.entries[n] <= InitInstance + Len(inst)
                  /\ Wrapper(drngs.entries[n]).drng = 0
                  /\ Wrapper(drngs.entries[n]).crypto_cb = InitCryptoCb
                  /\ Wrapper(drngs.entries[n]).lock
                  /\ Wrapper(drngs.entries[n]).spin_lock
                  /\ Wrapper(drngs.entries[n]).reset
                  /\ Wrapper(drngs.entries[n]).node = n
                  /\ Wrapper(drngs.entries[n]).dealloc = 0
                  /\ Wrapper(drngs.entries[n]).freed = 0
            /\ \A n \in online, m \in online :
                  n # m => drngs.entries[n] # drngs.entries[m]

\* the table is published with every node online, after an earlier
\* execution failed
C20_Witness ==
    /\ lrng_drng # NULL
    /\ online = Nodes
    /\ \E w \in Runs : work[w].pc = "done" /\ work[w].failed
    /\ \A n \in Nodes \ {0} : arrays[lrng_drng].entries[n] > InitInstance

================================================================
